---- MODULE Spec2Model ----
(***************************************************************************)
(* The "sort and squash" cell of 4-analyses-with-tree-sequences.ipynb:     *)
(* the local_ancestry table (one row per edge returned by link_ancestors)  *)
(* is sorted in place by (child, left) and then folded, row by row, into   *)
(* four accumulator lists from which squashed_ancestry_table is built.     *)
(*                                                                         *)
(* A table (pandas DataFrame) is a sequence of rows; every row carries its *)
(* index label.  Positions are integer-valued floats in the notebook; only *)
(* their order and equality matter to the code, so they are integers here. *)
(*                                                                         *)
(* Two more pieces of the notebooks are modelled beside it: the cell that  *)
(* draws squashed_ancestry_table as the ancestry figure (SpecPlot), and    *)
(* count_transitions of 3-simulating-mutations-with-msprime.ipynb          *)
(* (SpecCount).                                                            *)
(***************************************************************************)
EXTENDS Integers, Sequences, FiniteSets, TLC

\* Largest number of rows of local_ancestry.
MaxRecords == 2
\* Largest genomic coordinate (positions are 0..MaxPos).
MaxPos == 3
\* Largest sample (child) node id.
MaxChild == 1
\* Bounds of the tree sequences count_transitions is run on.
MaxSites == 1
MaxMutations == 2
\* Largest position in the tables the ancestry figure is drawn from, and in
\* the tables that are processed group by group.
MaxPlotPos == 1
\* Largest number of rows of a table that is processed group by group.
MaxGroupRecords == 4

Positions == 0..MaxPos
Children == 0..MaxChild
\* Populations of the census nodes: 0 = SMALL, 1 = BIG.
Populations == {0, 1}

\* One row of ancestor_table / local_ancestry before it gets an index label:
\* the ancestor of `child` on [left, right) is in `population`.
AncestryRecord ==
    {r \in [left : Positions, right : Positions,
            population : Populations, child : Children] : r.left <= r.right}

\* pd.DataFrame(data = {...}): the rows get the RangeIndex 0..n-1.
DataFrame(rows) ==
    [i \in 1..Len(rows) |->
        [index |-> i - 1, left |-> rows[i].left, right |-> rows[i].right,
         population |-> rows[i].population, child |-> rows[i].child]]

\* The tables the cell can be run on.
LocalAncestryTables ==
    {DataFrame(rows) : rows \in UNION {[1..n -> AncestryRecord] : n \in 0..MaxRecords}}

VARIABLES
    pc,                       \* position in the cell
    local_ancestry,           \* the input table (sorted in place by the cell)
    entry_table,              \* local_ancestry as it was when the cell started
    new_sample, new_left, new_right, new_population,   \* the accumulators
    pos,                      \* number of rows iterrows() has yielded so far
    squashed_ancestry_table,  \* the output table
    chr0, chr1,               \* the patches added to the two axes of the figure
    plot_ind,                 \* number of rows the plot loop has gone past
    stdout,                   \* the lines printed so far
    mts,                      \* the tree sequence count_transitions is called on
    counts,                   \* its counts matrix
    site_ind, mut_ind,        \* sites gone past, mutations of the site gone past
    groups,                   \* the runs of the cell on the rows of each child
    grouped_ancestry_table    \* their outputs, concatenated

plot_vars == <<chr0, chr1, plot_ind, stdout>>

count_vars == <<mts, counts, site_ind, mut_ind>>

group_vars == <<groups, grouped_ancestry_table>>

vars == <<pc, local_ancestry, entry_table, new_sample, new_left, new_right,
          new_population, pos, squashed_ancestry_table, plot_vars, count_vars,
          group_vars>>

----------------------------------------------------------------------------
(* local_ancestry.sort_values(by=['child','left'], inplace=True,           *)
(*                            ignore_index=True)                           *)

\* Variant: the sort is by child alone (by=['child']).
KeyLessChildOnly(a, b) == a.child < b.child

\* Variant: left is sorted in descending order within a child.
KeyLessLeftDescending(a, b) ==
    \/ a.child < b.child
    \/ a.child = b.child /\ a.left > b.left

\* Variant: the sort is by left alone (by=['left']).
KeyLessLeftOnly(a, b) == a.left < b.left

\* Order of the sort keys (child, left).
KeyLess(a, b) ==
    \/ a.child < b.child
    \/ a.child = b.child /\ a.left < b.left

\* Variant: r is inserted in front of the rows with an equal key (the sort
\* is not stable).
InsertBeforeEqual(s, r) ==
    LET k == Cardinality({i \in 1..Len(s) : KeyLess(s[i], r)})
    IN  SubSeq(s, 1, k) \o <<r>> \o SubSeq(s, k + 1, Len(s))

\* Insert r behind every row of the sorted table s whose key is not larger:
\* rows with equal keys keep their relative order (the sort is stable).
InsertStable(s, r) ==
    LET k == Cardinality({i \in 1..Len(s) : ~KeyLess(r, s[i])})
    IN  SubSeq(s, 1, k) \o <<r>> \o SubSeq(s, k + 1, Len(s))

RECURSIVE StableSort(_)
StableSort(s) ==
    IF s = <<>> THEN <<>>
    ELSE InsertStable(StableSort(SubSeq(s, 1, Len(s) - 1)), s[Len(s)])

\* Variant: ignore_index=False, every row keeps the label it had.
KeepIndex(s) == s

\* ignore_index=True: the sorted rows are labelled 0..n-1 again.
ResetIndex(s) == [i \in 1..Len(s) |-> [s[i] EXCEPT !.index = i - 1]]

sort_values(t) == ResetIndex(StableSort(t))

----------------------------------------------------------------------------
(* The body of `for ind, row in local_ancestry.iterrows()`.                *)

Accumulators(ns, nl, nr, np) ==
    [new_sample |-> ns, new_left |-> nl, new_right |-> nr, new_population |-> np]

EmptyAccumulators == Accumulators(<<>>, <<>>, <<>>, <<>>)

\* lst[-1] of a non-empty Python list.
Last(lst) == lst[Len(lst)]

\* Evaluating the `if` condition reads new_right[-1], new_population[-1] and
\* new_sample[-1] (in that order, as far as `and` gets): IndexError on an
\* empty list.
RaisesIndexError(acc, row) ==
    /\ row.index > 0
    /\ \/ acc.new_right = <<>>
       \/ row.left = Last(acc.new_right) /\ acc.new_population = <<>>
       \/ /\ row.left = Last(acc.new_right)
          /\ row.population = Last(acc.new_population)
          /\ acc.new_sample = <<>>

\* Variant: the row's left is compared with new_left[-1].
SquashConditionNewLeft(acc, row) ==
    /\ row.index > 0
    /\ row.left = Last(acc.new_left)
    /\ row.population = Last(acc.new_population)
    /\ row.child = Last(acc.new_sample)

\* Variant: the populations are not compared.
SquashConditionNoPopulation(acc, row) ==
    /\ row.index > 0
    /\ row.left = Last(acc.new_right)
    /\ row.child = Last(acc.new_sample)

\* Variant: a row that starts at or before new_right[-1] is squashed.
SquashConditionOverlapMerges(acc, row) ==
    /\ row.index > 0
    /\ row.left <= Last(acc.new_right)
    /\ row.population = Last(acc.new_population)
    /\ row.child = Last(acc.new_sample)

\* Variant: the children are not compared.
SquashConditionNoChild(acc, row) ==
    /\ row.index > 0
    /\ row.left = Last(acc.new_right)
    /\ row.population = Last(acc.new_population)

\* Variant: a row that starts at or behind new_right[-1] is squashed.
SquashConditionGapMerges(acc, row) ==
    /\ row.index > 0
    /\ row.left >= Last(acc.new_right)
    /\ row.population = Last(acc.new_population)
    /\ row.child = Last(acc.new_sample)

\* ind > 0 and row['left']==new_right[-1] and
\* row['population'] == new_population[-1] and row['child'] == new_sample[-1]
SquashCondition(acc, row) ==
    /\ row.index > 0
    /\ row.left = Last(acc.new_right)
    /\ row.population = Last(acc.new_population)
    /\ row.child = Last(acc.new_sample)

\* Variant: a squashed row is dropped without extending the last segment.
ExtendLastDropsRow(acc, row) == acc

\* Variant: the first segment is extended (new_right[0] = row['right']).
ExtendFirst(acc, row) ==
    [acc EXCEPT !.new_right = [acc.new_right EXCEPT ![1] = row.right]]

\* new_right[-1] = row['right']
ExtendLast(acc, row) ==
    [acc EXCEPT !.new_right = [acc.new_right EXCEPT ![Len(acc.new_right)] = row.right]]

\* Variant: a row with left = right is not appended.
AppendRowSkipsEmpty(acc, row) ==
    IF row.left = row.right THEN acc
    ELSE Accumulators(Append(acc.new_sample, row.child),
                      Append(acc.new_left, row.left),
                      Append(acc.new_right, row.right),
                      Append(acc.new_population, row.population))

\* the four appends of the else branch
AppendRow(acc, row) ==
    Accumulators(Append(acc.new_sample, row.child),
                 Append(acc.new_left, row.left),
                 Append(acc.new_right, row.right),
                 Append(acc.new_population, row.population))

SquashRow(acc, row) ==
    IF SquashCondition(acc, row) THEN ExtendLast(acc, row) ELSE AppendRow(acc, row)

----------------------------------------------------------------------------
(* squashed_ancestry_table = pd.DataFrame({...})                           *)

\* int(i) of an integer-valued float (iterrows yields float64 rows): the
\* integer itself.
PyInt(x) == x

SquashedTable(acc) ==
    [i \in 1..Len(acc.new_sample) |->
        [index |-> i - 1,
         child |-> PyInt(acc.new_sample[i]),
         left |-> acc.new_left[i],
         right |-> acc.new_right[i],
         population |-> PyInt(acc.new_population[i])]]

----------------------------------------------------------------------------
(* count_transitions(mts, msprime.JC69().alleles) of the mutations         *)
(* notebook: the tree sequences it is called on.                           *)

\* msprime.JC69().alleles
alleles == <<"A", "C", "G", "T">>

\* tskit.NULL
NULL == -1

\* The mutation tables of n mutations on the sites 0..(ns - 1): mutation i of
\* the sequence has id i - 1; the table is sorted by site, and the parent of
\* a mutation is an earlier mutation at the same site, as tskit requires.
MutationTables(ns, n) ==
    {m \in [1..n -> [site : 0..(ns - 1),
                     derived_state : {alleles[k] : k \in 1..Len(alleles)},
                     parent : {NULL} \cup 0..(n - 2)]] :
        /\ \A i \in 1..(n - 1) : m[i].site <= m[i + 1].site
        /\ \A i \in 1..n :
              m[i].parent # NULL =>
                  /\ m[i].parent < i - 1
                  /\ m[m[i].parent + 1].site = m[i].site}

\* The tree sequences of up to MaxSites sites and up to MaxMutations
\* mutations, as far as count_transitions reads them.
TreeSequences ==
    UNION {[ancestral_state : [1..ns -> {alleles[k] : k \in 1..Len(alleles)}],
            mutations : MutationTables(ns, n)] :
               ns \in 0..MaxSites, n \in 0..MaxMutations}

\* np.zeros((len(alleles), len(alleles)), dtype='int')
Zeros == [i \in 0..(Len(alleles) - 1) |-> [j \in 0..(Len(alleles) - 1) |-> 0]]

\* No tree sequence is being counted.
NoCount ==
    /\ mts = [ancestral_state |-> <<>>, mutations |-> <<>>]
    /\ counts = Zeros
    /\ site_ind = 0
    /\ mut_ind = 0

\* The table has not been split into groups.
NoGroups ==
    /\ groups = <<>>
    /\ grouped_ancestry_table = <<>>

\* fig, (chr0, chr1) = plt.subplots(2, ...): two axes without patches; nothing
\* has been printed.
EmptyFigure ==
    /\ chr0 = <<>>
    /\ chr1 = <<>>
    /\ plot_ind = 0
    /\ stdout = <<>>

----------------------------------------------------------------------------
(* The cell as a state machine.                                            *)

CurrentAccumulators == Accumulators(new_sample, new_left, new_right, new_population)

Init ==
    /\ pc = "start"
    /\ local_ancestry \in LocalAncestryTables
    /\ entry_table = local_ancestry
    /\ new_sample = <<>>
    /\ new_left = <<>>
    /\ new_right = <<>>
    /\ new_population = <<>>
    /\ pos = 0
    /\ squashed_ancestry_table = <<>>
    /\ EmptyFigure
    /\ NoGroups
    /\ NoCount

\* The four names are bound to empty lists, whatever they held, and the
\* table is sorted in place; the loop then starts on its first row.
SortValues ==
    /\ pc = "start"
    /\ new_sample' = EmptyAccumulators.new_sample
    /\ new_left' = EmptyAccumulators.new_left
    /\ new_right' = EmptyAccumulators.new_right
    /\ new_population' = EmptyAccumulators.new_population
    /\ local_ancestry' = sort_values(local_ancestry)
    /\ pos' = 0
    /\ pc' = "loop"
    /\ UNCHANGED <<entry_table, squashed_ancestry_table, plot_vars, count_vars,
                   group_vars>>

\* One iteration of the loop: the row is squashed into the last segment or
\* appended as a new one.
LoopIteration(extend) ==
    /\ pc = "loop"
    /\ pos < Len(local_ancestry)
    /\ LET row == local_ancestry[pos + 1]
           acc == CurrentAccumulators
       IN  IF RaisesIndexError(acc, row)
           THEN /\ pc' = "IndexError"
                /\ UNCHANGED <<new_sample, new_left, new_right, new_population, pos>>
           ELSE /\ extend = SquashCondition(acc, row)
                /\ new_sample' = SquashRow(acc, row).new_sample
                /\ new_left' = SquashRow(acc, row).new_left
                /\ new_right' = SquashRow(acc, row).new_right
                /\ new_population' = SquashRow(acc, row).new_population
                /\ pos' = pos + 1
                /\ pc' = "loop"
    /\ UNCHANGED <<local_ancestry, entry_table, squashed_ancestry_table,
                   plot_vars, count_vars, group_vars>>

Squash == LoopIteration(TRUE)

StartSegment == LoopIteration(FALSE)

\* Variant: the output table is built only after an iteration of the loop.
BuildTableAfterARow ==
    /\ pc = "loop"
    /\ pos = Len(local_ancestry)
    /\ pos > 0
    /\ squashed_ancestry_table' = SquashedTable(CurrentAccumulators)
    /\ pc' = "done"
    /\ UNCHANGED <<local_ancestry, entry_table, new_sample, new_left, new_right,
                   new_population, pos, plot_vars, count_vars, group_vars>>

\* The loop is exhausted: the output table is built from the accumulators.
BuildTable ==
    /\ pc = "loop"
    /\ pos = Len(local_ancestry)
    /\ squashed_ancestry_table' = SquashedTable(CurrentAccumulators)
    /\ pc' = "done"
    /\ UNCHANGED <<local_ancestry, entry_table, new_sample, new_left, new_right,
                   new_population, pos, plot_vars, count_vars, group_vars>>

Next ==
    \/ SortValues
    \/ Squash
    \/ StartSegment
    \/ BuildTable

Spec == Init /\ [][Next]_vars

\* The tables that hold rows of one child only (sample 0), one row more than
\* MaxRecords allows for several children.
OneChildTables ==
    {DataFrame(rows) :
        rows \in UNION {[1..n -> {r \in AncestryRecord : r.child = 0}] :
                            n \in 0..(MaxRecords + 1)}}

\* The cell run on the rows of one child.
InitOneChild ==
    /\ pc = "start"
    /\ local_ancestry \in OneChildTables
    /\ entry_table = local_ancestry
    /\ new_sample = <<>>
    /\ new_left = <<>>
    /\ new_right = <<>>
    /\ new_population = <<>>
    /\ pos = 0
    /\ squashed_ancestry_table = <<>>
    /\ EmptyFigure
    /\ NoGroups
    /\ NoCount

SpecOneChild == InitOneChild /\ [][Next]_vars

\* The cell run to its end on up to MaxRecords rows of one child.
InitRun ==
    /\ pc = "start"
    /\ local_ancestry \in {t \in OneChildTables : Len(t) <= MaxRecords}
    /\ entry_table = local_ancestry
    /\ new_sample = <<>>
    /\ new_left = <<>>
    /\ new_right = <<>>
    /\ new_population = <<>>
    /\ pos = 0
    /\ squashed_ancestry_table = <<>>
    /\ EmptyFigure
    /\ NoGroups
    /\ NoCount

\* The merge pass runs on: once the loop is entered, the interpreter takes its
\* next step (an iteration, or building the output) whenever there is one.
SpecRun ==
    InitRun /\ [][Next]_vars /\ WF_vars(Squash \/ StartSegment \/ BuildTable)

----------------------------------------------------------------------------
(* The ancestry figure: the cell that draws squashed_ancestry_table.       *)

\* The samples of the tables the figure is drawn from: one sample more than
\* the two the figure shows.
PlotChildren == 0..(MaxChild + 1)

\* The tables the sort and squash cell is run on before the figure is drawn.
PlotTables ==
    {DataFrame(rows) :
        rows \in UNION {[1..n -> {r \in [left : 0..MaxPlotPos, right : 0..MaxPlotPos,
                                         population : Populations,
                                         child : PlotChildren] : r.left <= r.right}] :
                            n \in 0..MaxRecords}}

\* chrom_labels = {0: 'chr0', 1: 'chr1'}
chrom_labels == (0 :> "chr0") @@ (1 :> "chr1")

\* colors = ['red', 'blue']
colors == <<"red", "blue">>

\* seq_length, the sequence_length the tree sequence is simulated with.
seq_length == MaxPlotPos

\* length = ts.sequence_length
length == seq_length

\* fig.legend(handles = [Polygon(..., color = 'blue'),
\*                       Polygon(..., color = 'red')],
\*            labels = ['SMALL', 'BIG'], ...)
legend == [handles |-> <<"blue", "red">>, labels |-> <<"SMALL", "BIG">>]

\* The names of populations 0 and 1, in the order of add_population.
population_name == <<"SMALL", "BIG">>

RECURSIVE GCD(_, _)
GCD(x, y) == IF y = 0 THEN x ELSE GCD(y, x % y)

\* x / y of a number x >= 0 and a number y > 0: the fraction in lowest terms.
Divide(x, y) == [num |-> x \div GCD(x, y), den |-> y \div GCD(x, y)]

\* str(x) of an int.
Str(x) == ToString(x)

\* str(x) of a float64 with an integer value (below 1e16): the digits of the
\* value and ".0".
StrFloat64(x) == ToString(x) \o ".0"

\* str(x) of a number held with the given dtype.
StrAs(x, dtype) == IF dtype = "float64" THEN StrFloat64(x) ELSE Str(x)

\* The row that iterrows() yields for row r of a table: a Series of the
\* row's values, all of dtype float64, as the table has columns of floats
\* (left, right) beside its columns of ints (child, population).
Float64Series(r) ==
    [left |-> r.left, right |-> r.right, population |-> r.population,
     child |-> r.child, dtype |-> "float64"]

\* np.array([[row.left/length, 0], [row.right/length, 0],
\*           [row.right/length, 1], [row.left/length, 1]])
Chunk(row) ==
    <<<<Divide(row.left, length), 0>>, <<Divide(row.right, length), 0>>,
      <<Divide(row.right, length), 1>>, <<Divide(row.left, length), 1>>>>

\* Polygon(xy=chunk, color = colors[int(row.population)])
Polygon(row) == [xy |-> Chunk(row), color |-> colors[PyInt(row.population) + 1]]

\* def plot_ancestry_chunk(row, chrom), row a Series: what the call prints
\* (p with the dtype of the Series, hence the int(p) of the tests), whether it
\* raises UnboundLocalError (c is bound for populations 0 and 1 only; the
\* line is printed before c is read), and the patches of chrom after it.
plot_ancestry_chunk(row, chrom) ==
    LET l == Divide(row.left, seq_length)
        r == Divide(row.right, seq_length)
        p == row.population
        bound == PyInt(p) = 0 \/ PyInt(p) = 1
        c == IF PyInt(p) = 0 THEN "blue" ELSE "red"
        chunk == <<<<l, 0>>, <<r, 0>>, <<r, 1>>, <<l, 1>>>>
    IN  [stdout |-> <<"p is " \o StrAs(p, row.dtype)>>,
         raises |-> ~bound,
         chrom |-> IF bound THEN Append(chrom, [xy |-> chunk, color |-> c])
                   ELSE chrom]

\* The cells up to the figure run on a table with up to three samples.
InitPlot ==
    /\ pc = "start"
    /\ local_ancestry \in PlotTables
    /\ entry_table = local_ancestry
    /\ new_sample = <<>>
    /\ new_left = <<>>
    /\ new_right = <<>>
    /\ new_population = <<>>
    /\ pos = 0
    /\ squashed_ancestry_table = <<>>
    /\ EmptyFigure
    /\ NoGroups
    /\ NoCount

\* Variant: the loop leaves at the first row with child > 0.
BreakConditionAfterChild0(row) == row.child > 0

\* The loop leaves at the first row with child > 1.
BreakCondition(row) == row.child > 1

\* One iteration of the plot loop that does not break: the row's polygon is
\* added to the axes of its child.
AddPatch ==
    /\ pc = "done"
    /\ plot_ind < Len(squashed_ancestry_table)
    /\ LET row == squashed_ancestry_table[plot_ind + 1]
       IN  /\ ~BreakCondition(row)
           /\ IF chrom_labels[row.child] = "chr0"
              THEN /\ chr0' = Append(chr0, Polygon(row))
                   /\ chr1' = chr1
              ELSE IF chrom_labels[row.child] = "chr1"
              THEN /\ chr1' = Append(chr1, Polygon(row))
                   /\ chr0' = chr0
              ELSE UNCHANGED <<chr0, chr1>>
    /\ plot_ind' = plot_ind + 1
    /\ UNCHANGED <<pc, local_ancestry, entry_table, new_sample, new_left,
                   new_right, new_population, pos, squashed_ancestry_table,
                   stdout, count_vars, group_vars>>

\* if row.child > 1: break
Break ==
    /\ pc = "done"
    /\ plot_ind < Len(squashed_ancestry_table)
    /\ BreakCondition(squashed_ancestry_table[plot_ind + 1])
    /\ pc' = "plotted"
    /\ UNCHANGED <<local_ancestry, entry_table, new_sample, new_left, new_right,
                   new_population, pos, squashed_ancestry_table, plot_vars,
                   count_vars, group_vars>>

\* The rows are exhausted.
EndOfTable ==
    /\ pc = "done"
    /\ plot_ind = Len(squashed_ancestry_table)
    /\ pc' = "plotted"
    /\ UNCHANGED <<local_ancestry, entry_table, new_sample, new_left, new_right,
                   new_population, pos, squashed_ancestry_table, plot_vars,
                   count_vars, group_vars>>

NextPlot ==
    \/ Next
    \/ AddPatch
    \/ Break
    \/ EndOfTable

SpecPlot == InitPlot /\ [][NextPlot]_vars

\* A call plot_ancestry_chunk(row, chrom) on a row that
\* squashed_ancestry_table.iterrows() yields and one of the two axes, in place of the loop of the figure cell (the
\* notebooks define the helper and leave the calls to the reader); at most
\* MaxRecords calls are made.
CallPlotAncestryChunk ==
    /\ pc = "done"
    /\ plot_ind = 0
    /\ Len(chr0) + Len(chr1) < MaxRecords
    /\ \E i \in 1..Len(squashed_ancestry_table), chrom \in {"chr0", "chr1"} :
          LET row == Float64Series(squashed_ancestry_table[i])
              call == plot_ancestry_chunk(row, IF chrom = "chr0" THEN chr0 ELSE chr1)
          IN  /\ stdout' = stdout \o call.stdout
              /\ pc' = IF call.raises THEN "UnboundLocalError" ELSE pc
              /\ chr0' = IF chrom = "chr0" THEN call.chrom ELSE chr0
              /\ chr1' = IF chrom = "chr1" THEN call.chrom ELSE chr1
    /\ UNCHANGED <<local_ancestry, entry_table, new_sample, new_left, new_right,
                   new_population, pos, squashed_ancestry_table, plot_ind,
                   count_vars, group_vars>>

NextChunk ==
    \/ Next
    \/ CallPlotAncestryChunk

SpecChunk == InitPlot /\ [][NextChunk]_vars

----------------------------------------------------------------------------
(* The cell run on each child's rows separately: "It may be parallelized   *)
(* trivially across independent `child` groups (an embarrassingly parallel *)
(* map, since groups do not interact)".  After the pass over the whole     *)
(* table, the table as it was given is split by child; the sort and the    *)
(* loop of the cell are run on each group, the steps of the groups in any  *)
(* order and interleaving, and the outputs are concatenated in ascending   *)
(* order of child.                                                         *)

\* The tables that are processed group by group.
GroupedTables ==
    {DataFrame(rows) :
        rows \in UNION {[1..n -> {r \in [left : 0..MaxPlotPos, right : 0..MaxPlotPos,
                                         population : Populations,
                                         child : Children] : r.left <= r.right}] :
                            n \in 0..MaxGroupRecords}}

InitGroups ==
    /\ pc = "start"
    /\ local_ancestry \in GroupedTables
    /\ entry_table = local_ancestry
    /\ new_sample = <<>>
    /\ new_left = <<>>
    /\ new_right = <<>>
    /\ new_population = <<>>
    /\ pos = 0
    /\ squashed_ancestry_table = <<>>
    /\ EmptyFigure
    /\ NoGroups
    /\ NoCount

\* The run of the cell on table t, before its first step.
GroupRun(t) ==
    [pc |-> "start", local_ancestry |-> t, acc |-> EmptyAccumulators, pos |-> 0,
     squashed_ancestry_table |-> <<>>]

\* The table as it was given is split by child: the rows of each child, in
\* table order, as a table of their own.
SplitByChild ==
    /\ pc = "done"
    /\ groups = <<>>
    /\ groups' = [c \in Children |->
                    GroupRun(DataFrame(SelectSeq(entry_table,
                                                 LAMBDA r : r.child = c)))]
    /\ pc' = "groups"
    /\ UNCHANGED <<local_ancestry, entry_table, new_sample, new_left, new_right,
                   new_population, pos, squashed_ancestry_table,
                   grouped_ancestry_table, plot_vars, count_vars>>

\* The group of child c is sorted.
GroupSortValues(c) ==
    /\ pc = "groups"
    /\ groups[c].pc = "start"
    /\ groups' = [groups EXCEPT
                    ![c].acc = EmptyAccumulators,
                    ![c].local_ancestry = sort_values(groups[c].local_ancestry),
                    ![c].pos = 0,
                    ![c].pc = "loop"]
    /\ UNCHANGED <<pc, local_ancestry, entry_table, new_sample, new_left,
                   new_right, new_population, pos, squashed_ancestry_table,
                   grouped_ancestry_table, plot_vars, count_vars>>

\* One iteration of the loop on the group of child c.
GroupLoopIteration(c) ==
    /\ pc = "groups"
    /\ groups[c].pc = "loop"
    /\ groups[c].pos < Len(groups[c].local_ancestry)
    /\ LET row == groups[c].local_ancestry[groups[c].pos + 1]
           acc == groups[c].acc
       IN  groups' = IF RaisesIndexError(acc, row)
                     THEN [groups EXCEPT ![c].pc = "IndexError"]
                     ELSE [groups EXCEPT ![c].acc = SquashRow(acc, row),
                                         ![c].pos = @ + 1]
    /\ UNCHANGED <<pc, local_ancestry, entry_table, new_sample, new_left,
                   new_right, new_population, pos, squashed_ancestry_table,
                   grouped_ancestry_table, plot_vars, count_vars>>

\* The loop on the group of child c is exhausted: its output is built.
GroupBuildTable(c) ==
    /\ pc = "groups"
    /\ groups[c].pc = "loop"
    /\ groups[c].pos = Len(groups[c].local_ancestry)
    /\ groups' = [groups EXCEPT
                    ![c].squashed_ancestry_table = SquashedTable(groups[c].acc),
                    ![c].pc = "done"]
    /\ UNCHANGED <<pc, local_ancestry, entry_table, new_sample, new_left,
                   new_right, new_population, pos, squashed_ancestry_table,
                   grouped_ancestry_table, plot_vars, count_vars>>

RECURSIVE ConcatFrom(_, _)
\* The outputs of the groups of children c, c + 1, ..., one after the other.
ConcatFrom(g, c) ==
    IF c > MaxChild THEN <<>>
    ELSE g[c].squashed_ancestry_table \o ConcatFrom(g, c + 1)

\* Every group is done: the outputs are concatenated in ascending order of
\* child and the rows relabelled 0..n-1.
ConcatGroupOutputs ==
    /\ pc = "groups"
    /\ \A c \in Children : groups[c].pc = "done"
    /\ grouped_ancestry_table' = ResetIndex(ConcatFrom(groups, 0))
    /\ pc' = "grouped"
    /\ UNCHANGED <<local_ancestry, entry_table, new_sample, new_left, new_right,
                   new_population, pos, squashed_ancestry_table, groups,
                   plot_vars, count_vars>>

NextGroups ==
    \/ Next
    \/ SplitByChild
    \/ \E c \in Children : GroupSortValues(c)
    \/ \E c \in Children : GroupLoopIteration(c)
    \/ \E c \in Children : GroupBuildTable(c)
    \/ ConcatGroupOutputs

SpecGroups == InitGroups /\ [][NextGroups]_vars

----------------------------------------------------------------------------
(* def count_transitions(ts, alleles), called on mts.                      *)

\* alleles.index(a): the first place of a in the list, counted from 0.
AlleleIndex(a) ==
    CHOOSE k \in 0..(Len(alleles) - 1) :
        /\ alleles[k + 1] = a
        /\ \A j \in 0..(k - 1) : alleles[j + 1] # a

\* ts.mutation(id)
Mutation(ts, id) == ts.mutations[id + 1]

\* s.mutations of site s: the ids of the mutations at the site, in id order.
SiteMutations(ts, s) ==
    SelectSeq([i \in 1..Len(ts.mutations) |-> i - 1],
              LAMBDA id : Mutation(ts, id).site = s)

\* Variant: pa is always the ancestral state of the site.
ParentAlleleAncestral(ts, m) == ts.ancestral_state[m.site + 1]

\* pa = aa; if m.parent != tskit.NULL: pa = ts.mutation(m.parent).derived_state
ParentAllele(ts, m) ==
    IF m.parent # NULL
    THEN Mutation(ts, m.parent).derived_state
    ELSE ts.ancestral_state[m.site + 1]

\* Variant: the cell is set to 1.
IncrementSetsOne(c, pa, da) ==
    [c EXCEPT ![AlleleIndex(pa)][AlleleIndex(da)] = 1]

\* counts[alleles.index(pa), alleles.index(da)] += 1
Increment(c, pa, da) ==
    [c EXCEPT ![AlleleIndex(pa)][AlleleIndex(da)] = @ + 1]

\* count_transitions is called on a tree sequence; counts is all zeros.
InitCount ==
    /\ pc = "count"
    /\ mts \in TreeSequences
    /\ counts = Zeros
    /\ site_ind = 0
    /\ mut_ind = 0
    /\ local_ancestry = <<>>
    /\ entry_table = <<>>
    /\ new_sample = <<>>
    /\ new_left = <<>>
    /\ new_right = <<>>
    /\ new_population = <<>>
    /\ pos = 0
    /\ squashed_ancestry_table = <<>>
    /\ EmptyFigure
    /\ NoGroups

\* One iteration of `for m in s.mutations`.
CountMutation ==
    /\ pc = "count"
    /\ site_ind < Len(mts.ancestral_state)
    /\ mut_ind < Len(SiteMutations(mts, site_ind))
    /\ LET m == Mutation(mts, SiteMutations(mts, site_ind)[mut_ind + 1])
       IN  counts' = Increment(counts, ParentAllele(mts, m), m.derived_state)
    /\ mut_ind' = mut_ind + 1
    /\ UNCHANGED <<pc, mts, site_ind, local_ancestry, entry_table, new_sample,
                   new_left, new_right, new_population, pos,
                   squashed_ancestry_table, plot_vars,
                   group_vars>>

\* The mutations of the site are exhausted: `for s in ts.sites()` moves on.
NextSite ==
    /\ pc = "count"
    /\ site_ind < Len(mts.ancestral_state)
    /\ mut_ind = Len(SiteMutations(mts, site_ind))
    /\ site_ind' = site_ind + 1
    /\ mut_ind' = 0
    /\ UNCHANGED <<pc, mts, counts, local_ancestry, entry_table, new_sample,
                   new_left, new_right, new_population, pos,
                   squashed_ancestry_table, plot_vars,
                   group_vars>>

\* "\t".join(strs) of a non-empty list of strings.
RECURSIVE JoinTabs(_)
JoinTabs(strs) ==
    IF Len(strs) = 1 THEN strs[1] ELSE strs[1] \o "\t" \o JoinTabs(Tail(strs))

\* print("\t", "\t".join(alleles)), then for each allele a, in place j,
\* print(f"{a}\t", "\t".join(map(str, counts[j])))
PrintedMatrix(c) ==
    <<"\t " \o JoinTabs(alleles)>> \o
    [j \in 1..Len(alleles) |->
        alleles[j] \o "\t " \o
        JoinTabs([k \in 1..Len(alleles) |-> Str(c[j - 1][k - 1])])]

\* The sites are exhausted: the matrix is printed and the call returns.
PrintCounts ==
    /\ pc = "count"
    /\ site_ind = Len(mts.ancestral_state)
    /\ stdout' = stdout \o PrintedMatrix(counts)
    /\ pc' = "counted"
    /\ UNCHANGED <<mts, counts, site_ind, mut_ind, local_ancestry, entry_table,
                   new_sample, new_left, new_right, new_population, pos,
                   squashed_ancestry_table, chr0, chr1, plot_ind,
                   group_vars>>

NextCount ==
    \/ CountMutation
    \/ NextSite
    \/ PrintCounts

SpecCount == InitCount /\ [][NextCount]_vars

----------------------------------------------------------------------------
(* The cell as a function of the table it is run on.                       *)

RECURSIVE SquashRows(_, _)
\* The accumulators after the first k rows of the sorted table t.
SquashRows(t, k) ==
    IF k = 0 THEN EmptyAccumulators ELSE SquashRow(SquashRows(t, k - 1), t[k])

SortAndSquash(t) ==
    LET s == sort_values(t) IN SquashedTable(SquashRows(s, Len(s)))

----------------------------------------------------------------------------
(* Vocabulary of the properties.                                           *)

Done == pc = "done"

\* The rows of table t that belong to child c, in table order.
OfChild(t, c) == SelectSeq(t, LAMBDA r : r.child = c)

\* Two rows overlap: left_j < right_i and left_i < right_j.
Overlap(a, b) == a.left < b.right /\ b.left < a.right

\* Two distinct rows of t of the same child overlap.
HasOverlap(t) ==
    \E i, j \in 1..Len(t) :
        i # j /\ t[i].child = t[j].child /\ Overlap(t[i], t[j])

\* Some row of t has left = right.
HasZeroLength(t) == \E i \in 1..Len(t) : t[i].left = t[i].right

\* The input contract: every interval is non-empty and the rows of one child
\* are pairwise non-overlapping.
InputContract(t) == ~HasZeroLength(t) /\ ~HasOverlap(t)

\* The unit cells [x, x+1) of child c that table t covers.  All endpoints
\* are integers, so a union of intervals is determined by its unit cells.
Covered(t, c) ==
    {x \in Positions :
        \E i \in 1..Len(t) : t[i].child = c /\ t[i].left <= x /\ x < t[i].right}

\* The populations table t reports for child c on the unit cell [x, x+1).
Labels(t, c, x) ==
    {t[i].population :
        i \in {k \in 1..Len(t) : t[k].child = c /\ t[k].left <= x /\ x < t[k].right}}

\* Two rows of the entry table touch with the same child and population.
EntryHasMergeablePair ==
    \E i, j \in 1..Len(entry_table) :
        /\ i # j
        /\ entry_table[i].child = entry_table[j].child
        /\ entry_table[i].population = entry_table[j].population
        /\ entry_table[i].left < entry_table[i].right
        /\ entry_table[j].left < entry_table[j].right
        /\ entry_table[i].right = entry_table[j].left

----------------------------------------------------------------------------
(* C1 - Maximal merge: in the output, no two consecutive segments of the   *)
(* same child satisfy right[i] = left[i+1] and population[i] =             *)
(* population[i+1].  Holds for every input.                                *)
MaximalMerge ==
    Done =>
        \A c \in Children :
            LET g == OfChild(squashed_ancestry_table, c)
            IN  \A i \in 1..(Len(g) - 1) :
                    ~(g[i].right = g[i + 1].left /\ g[i].population = g[i + 1].population)

\* A mergeable pair was given and the output holds the single merged segment.
MaximalMergeWitness ==
    /\ Done
    /\ EntryHasMergeablePair
    /\ Len(entry_table) = 2
    /\ Len(squashed_ancestry_table) = 1

(* C2 - Coverage preservation: for every child the union of the output     *)
(* intervals equals the union of the input intervals.                      *)
CoveragePreserved ==
    Done =>
        \A c \in Children :
            Covered(squashed_ancestry_table, c) = Covered(entry_table, c)

\* Two rows were squashed into one segment that covers both of them.
CoveragePreservedWitness ==
    /\ Done
    /\ EntryHasMergeablePair
    /\ Len(squashed_ancestry_table) < Len(entry_table)
    /\ \E c \in Children : Cardinality(Covered(squashed_ancestry_table, c)) = 2

(* C3 - Label preservation: for every child and position the populations   *)
(* reported by the output equal the populations reported by the input.     *)
LabelsPreserved ==
    Done =>
        \A c \in Children : \A x \in Positions :
            Labels(squashed_ancestry_table, c, x) = Labels(entry_table, c, x)

\* Two touching rows of one child with different populations went through
\* the loop (the case in which a merge would change a label).
LabelsPreservedWitness ==
    /\ Done
    /\ \E i, j \in 1..Len(entry_table) :
          /\ entry_table[i].child = entry_table[j].child
          /\ entry_table[i].population # entry_table[j].population
          /\ entry_table[i].left < entry_table[i].right
          /\ entry_table[j].left < entry_table[j].right
          /\ entry_table[i].right = entry_table[j].left
    /\ Len(squashed_ancestry_table) = 2

\* Any two output segments of one child, in table order, do not overlap:
\* the earlier one ends where or before the later one starts.
OutputNonOverlapping ==
    \A i, j \in 1..Len(squashed_ancestry_table) :
        (i < j /\ squashed_ancestry_table[i].child = squashed_ancestry_table[j].child)
            => squashed_ancestry_table[i].right <= squashed_ancestry_table[j].left

(* C4 as claimed - Non-overlap for every input on which an output is       *)
(* returned.  The cell returns an output for every input, also for         *)
(* overlapping rows, which it passes through.                              *)
NonOverlapEveryInput == Done => OutputNonOverlapping

(* C4 as amended - Non-overlap for every input that satisfies the input    *)
(* contract (every left < right, same-child rows pairwise non-overlapping).*)
NonOverlapUnderContract ==
    (Done /\ InputContract(entry_table)) => OutputNonOverlapping

\* Two non-overlapping rows of one child, given out of order, end up as two
\* output segments.
NonOverlapWitness ==
    /\ Done
    /\ InputContract(entry_table)
    /\ Len(entry_table) = 2
    /\ entry_table[1].child = entry_table[2].child
    /\ entry_table[2].right < entry_table[1].left
    /\ Len(squashed_ancestry_table) = 2
    /\ squashed_ancestry_table[1].right < squashed_ancestry_table[2].left

\* The lefts of the output segments of every child strictly increase.
OutputLeftStrictlyIncreasing ==
    \A i, j \in 1..Len(squashed_ancestry_table) :
        (i < j /\ squashed_ancestry_table[i].child = squashed_ancestry_table[j].child)
            => squashed_ancestry_table[i].left < squashed_ancestry_table[j].left

\* The lefts of the output segments of every child never decrease.
OutputLeftNonDecreasing ==
    \A i, j \in 1..Len(squashed_ancestry_table) :
        (i < j /\ squashed_ancestry_table[i].child = squashed_ancestry_table[j].child)
            => squashed_ancestry_table[i].left <= squashed_ancestry_table[j].left

(* C5 as claimed - Within-group order: for every input the output segments *)
(* of one child are in strictly increasing order of left.                  *)
StrictLeftOrderEveryInput == Done => OutputLeftStrictlyIncreasing

(* C5 as amended - Within-group order: for every input the output segments *)
(* of one child are in non-decreasing order of left, and in strictly       *)
(* increasing order when the input satisfies the input contract.           *)
LeftOrderAmended ==
    Done =>
        /\ OutputLeftNonDecreasing
        /\ InputContract(entry_table) => OutputLeftStrictlyIncreasing

\* Two rows of one child under the contract, given in descending order of
\* left, both reach the output.
LeftOrderWitness ==
    /\ Done
    /\ InputContract(entry_table)
    /\ Len(entry_table) = 2
    /\ entry_table[1].child = entry_table[2].child
    /\ entry_table[1].left > entry_table[2].left
    /\ Len(squashed_ancestry_table) = 2
    /\ squashed_ancestry_table[1].left < squashed_ancestry_table[2].left

----------------------------------------------------------------------------
\* The cell has not failed: no exception was raised, and it has returned its
\* table or has a step to take (the sort, a loop iteration, or building the
\* output table once the rows are exhausted).
NotFailed ==
    /\ pc \in {"start", "loop", "done"}
    /\ pc = "loop" => pos <= Len(local_ancestry)

(* C6 as claimed - Overlap is an error: when two rows of one child         *)
(* overlap, the step fails instead of returning a table.                   *)
OverlapIsError == HasOverlap(entry_table) => ~Done

(* C6 as amended - Overlap is passed through: when two rows of one child   *)
(* overlap, the step raises no error; it returns a table in which two      *)
(* segments of one child overlap.                                          *)
OverlapPassedThrough ==
    /\ NotFailed \/ ~HasOverlap(entry_table)
    /\ Done => (HasOverlap(entry_table) => HasOverlap(squashed_ancestry_table))

\* The overlapping rows of example 4 of the properties, (0,2) and (1,3) of
\* one child and population, went through the cell.
OverlapWitness ==
    /\ Done
    /\ Len(entry_table) = 2
    /\ entry_table[1].child = entry_table[2].child
    /\ entry_table[1].population = entry_table[2].population
    /\ entry_table[1].left = 0 /\ entry_table[1].right = 2
    /\ entry_table[2].left = 1 /\ entry_table[2].right = 3
    /\ Len(squashed_ancestry_table) = 2

(* C7 as claimed - Zero-length interval is an error: when a row has        *)
(* left = right the step fails; the row is neither passed through nor      *)
(* absorbed.                                                               *)
ZeroLengthIsError == HasZeroLength(entry_table) => ~Done

(* C7 as amended - Zero-length interval is accepted: when a row has        *)
(* left = right the step raises no error; it returns a table in which some *)
(* segment of the row's child and population contains the row's position   *)
(* (the row is passed through as a zero-length segment or absorbed into a  *)
(* segment it touches).                                                    *)
ZeroLengthPassedThrough ==
    /\ NotFailed \/ ~HasZeroLength(entry_table)
    /\ Done =>
              \A i \in 1..Len(entry_table) :
                  entry_table[i].left = entry_table[i].right =>
                      \E j \in 1..Len(squashed_ancestry_table) :
                          /\ squashed_ancestry_table[j].child = entry_table[i].child
                          /\ squashed_ancestry_table[j].population = entry_table[i].population
                          /\ squashed_ancestry_table[j].left <= entry_table[i].left
                          /\ entry_table[i].left <= squashed_ancestry_table[j].right

\* A zero-length row was absorbed into the segment that ends where it lies.
ZeroLengthWitness ==
    /\ Done
    /\ Len(entry_table) = 2
    /\ entry_table[1].left = entry_table[1].right
    /\ entry_table[2].left < entry_table[2].right
    /\ entry_table[2].right = entry_table[1].left
    /\ Len(squashed_ancestry_table) = 1
    /\ squashed_ancestry_table[1].left < squashed_ancestry_table[1].right

\* The tables that hold the rows of t in some other order (a table is built
\* with the index 0..n-1, whatever the order of its rows).
TablePermutations(t) ==
    {DataFrame([i \in 1..Len(t) |-> t[p[i]]]) : p \in Permutations(1..Len(t))}

\* No two rows of t have the same child and the same left.
DistinctSortKeys(t) ==
    \A i, j \in 1..Len(t) :
        i # j => ~(t[i].child = t[j].child /\ t[i].left = t[j].left)

(* C8 as claimed - Order independence: for every input and every           *)
(* permutation of its rows the step returns the same sequence of segments. *)
OrderIndependentEveryInput ==
    Done =>
        \A t \in TablePermutations(entry_table) :
            SortAndSquash(t) = squashed_ancestry_table

(* C8 as amended - Order independence: for every input in which no two     *)
(* rows of one child have the same left, and every permutation of its      *)
(* rows, the step returns the same sequence of segments.                   *)
OrderIndependentDistinctKeys ==
    (Done /\ DistinctSortKeys(entry_table)) =>
        \A t \in TablePermutations(entry_table) :
            SortAndSquash(t) = squashed_ancestry_table

\* Two rows with different sort keys were given in descending key order, so
\* that the permutations of the input differ and the sort reorders them.
OrderIndependentWitness ==
    /\ Done
    /\ DistinctSortKeys(entry_table)
    /\ Len(entry_table) = 2
    /\ KeyLess(entry_table[2], entry_table[1])
    /\ Cardinality(TablePermutations(entry_table)) = 2
    /\ Len(squashed_ancestry_table) = 1

(* C9 - Idempotence: sorting and squashing the output again returns        *)
(* exactly the same sequence of segments.                                  *)
Idempotent ==
    Done => SortAndSquash(squashed_ancestry_table) = squashed_ancestry_table

\* The output holds two segments with the same sort key (same child and
\* left), the case in which a second sort could reorder it.
IdempotentWitness ==
    /\ Done
    /\ Len(squashed_ancestry_table) = 2
    /\ ~DistinctSortKeys(squashed_ancestry_table)
    /\ squashed_ancestry_table[1] # [squashed_ancestry_table[2] EXCEPT !.index = 0]

\* A row without its index label.
Values(r) ==
    [left |-> r.left, right |-> r.right, population |-> r.population, child |-> r.child]

\* Tables a and b hold the same rows, each as many times, in any order.
SameRows(a, b) ==
    /\ Len(a) = Len(b)
    /\ \E p \in Permutations(1..Len(a)) :
          \A i \in 1..Len(a) : Values(a[i]) = Values(b[p[i]])

\* Table t is in non-decreasing order of (child, left).
IsSorted(t) == \A i, j \in 1..Len(t) : i < j => ~KeyLess(t[j], t[i])

(* C10 as claimed - Purity: the input table (rows, their order, their      *)
(* index) is the same after the step as before it.                         *)
InputUnchanged == Done => local_ancestry = entry_table

(* C10 as amended - The step's only effect on the input table is the       *)
(* in-place sort: the table keeps its rows (each as many times) and its    *)
(* index 0..n-1, its rows are in (child, left) order from the sort on, and *)
(* rows and order are as before exactly when the table was already in      *)
(* that order.                                                             *)
InputOnlySorted ==
    /\ \A i \in 1..Len(local_ancestry) : local_ancestry[i].index = i - 1
    /\ pc = "start" => local_ancestry = entry_table
    /\ Done =>
          /\ SameRows(local_ancestry, entry_table)
          /\ IsSorted(local_ancestry)
          /\ IsSorted(entry_table) <=> local_ancestry = entry_table

\* The cell ran on a table that was not in (child, left) order and left it
\* reordered.
InputOnlySortedWitness ==
    /\ Done
    /\ ~IsSorted(entry_table)
    /\ local_ancestry # entry_table
    /\ Len(squashed_ancestry_table) = 2

----------------------------------------------------------------------------
\* The non-empty labelled segments that report nothing table t does not
\* report: on every unit cell they cover, t reports exactly their population
\* for their child.  A set of segments that assigns the same population as t
\* to every position can hold no other non-empty segment.
ConsistentSegments(t) ==
    {g \in [left : Positions, right : Positions,
            population : Populations, child : Children] :
        /\ g.left < g.right
        /\ \A x \in g.left..(g.right - 1) : Labels(t, g.child, x) = {g.population}}

RECURSIVE SubsetsUpTo(_, _)
\* The subsets of S with at most k elements.
SubsetsUpTo(S, k) ==
    IF k < 0 THEN {}
    ELSE IF k = 0 THEN {{}}
    ELSE LET P == SubsetsUpTo(S, k - 1)
         IN  P \cup {A \cup {x} : A \in P, x \in S}

\* The populations the set of segments G reports for child c on [x, x+1).
SetLabels(G, c, x) ==
    {g.population : g \in {h \in G : h.child = c /\ h.left <= x /\ x < h.right}}

(* C11 - Minimality: for input that satisfies the input contract, no set   *)
(* of (non-empty) labelled half-open segments that assigns the same        *)
(* population to every position of every child has fewer segments than the *)
(* output.                                                                 *)
Minimality ==
    (Done /\ InputContract(entry_table)) =>
        \A G \in SubsetsUpTo(ConsistentSegments(entry_table),
                             Len(squashed_ancestry_table) - 1) :
            \E c \in Children : \E x \in Positions :
                SetLabels(G, c, x) # Labels(entry_table, c, x)

\* Two touching rows of one child with different populations: every single
\* segment is a candidate and none reports what the two output segments do.
MinimalityWitness ==
    /\ Done
    /\ InputContract(entry_table)
    /\ Len(entry_table) = 2
    /\ entry_table[1].child = entry_table[2].child
    /\ entry_table[1].population # entry_table[2].population
    /\ entry_table[2].right = entry_table[1].left
    /\ Len(squashed_ancestry_table) = 2
    /\ ConsistentSegments(entry_table) # {}

----------------------------------------------------------------------------
(* C12 - Grouping: in the output the segments of one child are contiguous  *)
(* and the groups are in ascending order of child, whatever the order in   *)
(* which the children first appear in the input.                           *)
GroupedByAscendingChild ==
    Done =>
        \A i, j \in 1..Len(squashed_ancestry_table) :
            i < j => squashed_ancestry_table[i].child <= squashed_ancestry_table[j].child

\* Example 3 of the properties: the larger child comes first in the input
\* (and further right on the genome) and second in the output.
GroupedWitness ==
    /\ Done
    /\ Len(entry_table) = 2
    /\ entry_table[1].child > entry_table[2].child
    /\ entry_table[1].left > entry_table[2].right
    /\ Len(squashed_ancestry_table) = 2
    /\ squashed_ancestry_table[1].child < squashed_ancestry_table[2].child

\* For rows i and j of the entry table that touch (right of i = left of j)
\* with one child and different populations, the output holds a segment of
\* i's population ending at the boundary and a segment of j's population
\* starting at it.
TouchingKeptSeparate ==
    \A i, j \in 1..Len(entry_table) :
        ( /\ i # j
          /\ entry_table[i].child = entry_table[j].child
          /\ entry_table[i].population # entry_table[j].population
          /\ entry_table[i].right = entry_table[j].left )
        => \E a, b \in 1..Len(squashed_ancestry_table) :
              /\ a # b
              /\ squashed_ancestry_table[a].child = entry_table[i].child
              /\ squashed_ancestry_table[b].child = entry_table[i].child
              /\ squashed_ancestry_table[a].population = entry_table[i].population
              /\ squashed_ancestry_table[b].population = entry_table[j].population
              /\ squashed_ancestry_table[a].right = entry_table[i].right
              /\ squashed_ancestry_table[b].left = entry_table[j].left

(* C13 as claimed - Touching intervals with different labels stay          *)
(* separate: whenever two records of one child touch with different        *)
(* populations, the output holds two segments meeting at that boundary,    *)
(* each with its own label.                                                *)
TouchingSeparateEveryInput == Done => TouchingKeptSeparate

(* C13 as amended - The same, for input that satisfies the input contract  *)
(* (every left < right, same-child records pairwise non-overlapping).      *)
TouchingSeparateUnderContract ==
    (Done /\ InputContract(entry_table)) => TouchingKeptSeparate

\* Example 2 of the properties with a third row: three rows of one child
\* under the contract, two of them touching with different populations.
TouchingSeparateWitness ==
    /\ Done
    /\ InputContract(entry_table)
    /\ Len(entry_table) = 3
    /\ \E i, j \in 1..3 :
          /\ entry_table[i].population # entry_table[j].population
          /\ entry_table[i].right = entry_table[j].left
    /\ Len(squashed_ancestry_table) >= 2

\* The runs of table t: the sequences of two or more distinct rows of one
\* child and one population in which every row starts where the previous
\* one ends.
Runs(t) ==
    {q \in UNION {[1..k -> 1..Len(t)] : k \in 2..Len(t)} :
        /\ \A m, n \in 1..Len(q) : m # n => q[m] # q[n]
        /\ \A m \in 1..(Len(q) - 1) :
              /\ t[q[m + 1]].child = t[q[m]].child
              /\ t[q[m + 1]].population = t[q[m]].population
              /\ t[q[m + 1]].left = t[q[m]].right}

\* The output segments of the run's child and population that span it.
SegmentsSpanning(t, q) ==
    {j \in 1..Len(squashed_ancestry_table) :
        /\ squashed_ancestry_table[j].child = t[q[1]].child
        /\ squashed_ancestry_table[j].population = t[q[1]].population
        /\ squashed_ancestry_table[j].left <= t[q[1]].left
        /\ t[q[Len(q)]].right <= squashed_ancestry_table[j].right}

\* The output segments that are exactly the run: its child and population,
\* from the first row's left to the last row's right.
SegmentsOfRun(t, q) ==
    {j \in SegmentsSpanning(t, q) :
        /\ squashed_ancestry_table[j].left = t[q[1]].left
        /\ squashed_ancestry_table[j].right = t[q[Len(q)]].right}

\* No other row of the run's child and population ends where the run
\* starts or starts where it ends.
MaximalRun(t, q) ==
    \A i \in 1..Len(t) :
        (/\ \A m \in 1..Len(q) : q[m] # i
         /\ t[i].child = t[q[1]].child
         /\ t[i].population = t[q[1]].population)
        => (t[i].right # t[q[1]].left /\ t[i].left # t[q[Len(q)]].right)

(* C14 as claimed - Chain merge: every run of k >= 2 records is reported   *)
(* as exactly one segment, from the first record's left to the last        *)
(* record's right, whatever the input order.                               *)
ChainMergedEveryInput ==
    Done =>
        \A q \in Runs(entry_table) :
            /\ Cardinality(SegmentsOfRun(entry_table, q)) = 1
            /\ Cardinality(SegmentsSpanning(entry_table, q)) = 1

(* C14 as amended - Chain merge: for input that satisfies the input        *)
(* contract, every run of k >= 2 records lies in exactly one output        *)
(* segment, whatever the input order; that segment goes from the first     *)
(* record's left to the last record's right when no other record of that   *)
(* child and population touches the run.                                   *)
ChainMergedUnderContract ==
    (Done /\ InputContract(entry_table)) =>
        \A q \in Runs(entry_table) :
            /\ Cardinality(SegmentsSpanning(entry_table, q)) = 1
            /\ MaximalRun(entry_table, q) =>
                  SegmentsOfRun(entry_table, q) = SegmentsSpanning(entry_table, q)

\* A run of three rows, given in an order that is not the genomic one, came
\* out as one segment.
ChainMergedWitness ==
    /\ Done
    /\ InputContract(entry_table)
    /\ Len(entry_table) = 3
    /\ \E q \in Runs(entry_table) : Len(q) = 3 /\ q[1] # 1
    /\ Len(squashed_ancestry_table) = 1
    /\ squashed_ancestry_table[1].left = 0
    /\ squashed_ancestry_table[1].right = 3

----------------------------------------------------------------------------
(* C15 - Valid inputs never fail: on input with no zero-length row and no  *)
(* two overlapping rows of one child the step raises no error, and once    *)
(* the rows are exhausted it returns its table.                            *)
ValidInputNeverFails ==
    /\ NotFailed \/ ~InputContract(entry_table)
    /\ (Done /\ InputContract(entry_table)) =>
          /\ Len(squashed_ancestry_table) <= Len(entry_table)
          /\ entry_table # <<>> => squashed_ancestry_table # <<>>

\* Two rows of one child separated by a gap went through the cell.
ValidInputWitness ==
    /\ Done
    /\ InputContract(entry_table)
    /\ Len(entry_table) = 2
    /\ entry_table[1].child = entry_table[2].child
    /\ entry_table[1].right < entry_table[2].left
    /\ Len(squashed_ancestry_table) = 2

\* Every row of the entry table lies in an output segment of its child and
\* population.
EveryRowReported ==
    \A i \in 1..Len(entry_table) :
        \E j \in 1..Len(squashed_ancestry_table) :
            /\ squashed_ancestry_table[j].child = entry_table[i].child
            /\ squashed_ancestry_table[j].population = entry_table[i].population
            /\ squashed_ancestry_table[j].left <= entry_table[i].left
            /\ entry_table[i].right <= squashed_ancestry_table[j].right

(* C16 as claimed - No partial output on error: when an overlap or a       *)
(* zero-length row exists in some child's group, the step produces no      *)
(* output segment at all.                                                  *)
NoOutputOnViolation ==
    ~InputContract(entry_table) => squashed_ancestry_table = <<>>

(* C16 as amended - Complete output on a violation: when an overlap or a   *)
(* zero-length row exists in some child's group, the step raises no error  *)
(* and produces its whole output: every input row, of that child and of    *)
(* every other child, lies in an output segment of its child and           *)
(* population.                                                             *)
CompleteOutputOnViolation ==
    /\ NotFailed \/ InputContract(entry_table)
    /\ (Done /\ ~InputContract(entry_table)) => EveryRowReported

\* One child's only row has zero length, the other child has a single
\* proper row: both children are in the output.
CompleteOutputWitness ==
    /\ Done
    /\ Len(entry_table) = 2
    /\ entry_table[1].child # entry_table[2].child
    /\ entry_table[1].left = entry_table[1].right
    /\ entry_table[2].left < entry_table[2].right
    /\ Len(squashed_ancestry_table) = 2

(* C17 - Empty input yields empty output: with no input rows the step      *)
(* raises no error and returns a table with no segments.                   *)
EmptyInputEmptyOutput ==
    entry_table = <<>> =>
        /\ NotFailed
        /\ pc = "loop" => ENABLED BuildTable
        /\ Done => squashed_ancestry_table = <<>>

\* The cell ran to its end on the empty table.
EmptyInputWitness ==
    /\ Done
    /\ entry_table = <<>>
    /\ local_ancestry = <<>>
    /\ pos = 0

(* C18 - Single-record pass-through: a child with exactly one input row    *)
(* has exactly one output segment, with that row's child, left, right and  *)
(* population.                                                             *)
SingleRecordPassedThrough ==
    Done =>
        \A c \in Children :
            Len(OfChild(entry_table, c)) = 1 =>
                /\ Len(OfChild(squashed_ancestry_table, c)) = 1
                /\ Values(OfChild(squashed_ancestry_table, c)[1])
                      = Values(OfChild(entry_table, c)[1])

\* Each of two children has one row, and the second child's row starts
\* where the first child's row ends, with the same population.
SingleRecordWitness ==
    /\ Done
    /\ Len(entry_table) = 2
    /\ entry_table[1].child > entry_table[2].child
    /\ entry_table[1].population = entry_table[2].population
    /\ entry_table[1].left = entry_table[2].right
    /\ entry_table[2].left < entry_table[2].right
    /\ Len(squashed_ancestry_table) = 2

(* C19 - No merge across children: the last row of one child and the first *)
(* row of the next child are never merged: in the output every child's     *)
(* first segment starts at the left of the child's first sorted row and    *)
(* its last segment ends at the right of the child's last sorted row.      *)
NoMergeAcrossChildren ==
    Done =>
        \A c \in Children :
            LET rows == OfChild(local_ancestry, c)
                segs == OfChild(squashed_ancestry_table, c)
            IN  /\ (rows = <<>>) <=> (segs = <<>>)
                /\ rows # <<>> =>
                      /\ segs[1].left = rows[1].left
                      /\ segs[Len(segs)].right = rows[Len(rows)].right

\* The boundary case: child 0 ends where child 1 starts, same population,
\* and the output keeps one segment for each.
NoMergeAcrossWitness ==
    /\ Done
    /\ Len(local_ancestry) = 2
    /\ local_ancestry[1].child < local_ancestry[2].child
    /\ local_ancestry[1].population = local_ancestry[2].population
    /\ local_ancestry[1].right = local_ancestry[2].left
    /\ local_ancestry[1].left < local_ancestry[1].right
    /\ local_ancestry[2].left < local_ancestry[2].right
    /\ Len(squashed_ancestry_table) = 2
    /\ squashed_ancestry_table[1].right = squashed_ancestry_table[2].left

(* C20 - Group independence: the output segments of a child depend only on *)
(* that child's input records, and processing each child's group           *)
(* separately, the steps of the groups in any order and interleaving, and  *)
(* concatenating the results in ascending order of child gives exactly the *)
(* output of the single sequential pass over the whole table.  While the   *)
(* groups are being processed, no step of one group changes the run of     *)
(* another, and no group fails.                                            *)
GroupIndependence ==
    /\ pc = "grouped" =>
          /\ grouped_ancestry_table = squashed_ancestry_table
          /\ \A c \in Children :
                /\ Len(groups[c].squashed_ancestry_table)
                       = Len(OfChild(squashed_ancestry_table, c))
                /\ \A k \in 1..Len(groups[c].squashed_ancestry_table) :
                      Values(groups[c].squashed_ancestry_table[k])
                          = Values(OfChild(squashed_ancestry_table, c)[k])
    /\ pc = "groups" =>
          \A c \in Children :
              /\ groups[c].pc \in {"start", "loop", "done"}
              /\ \A i \in 1..Len(groups[c].local_ancestry) :
                    groups[c].local_ancestry[i].child = c
              /\ groups[c].pc = "done" =>
                    /\ Len(groups[c].squashed_ancestry_table)
                           = Len(OfChild(squashed_ancestry_table, c))
                    /\ \A k \in 1..Len(groups[c].squashed_ancestry_table) :
                          Values(groups[c].squashed_ancestry_table[k])
                              = Values(OfChild(squashed_ancestry_table, c)[k])

\* Two children with two rows each, given interleaved and out of order; in
\* each group the two rows touch and have one population, the groups have
\* been processed and each has given one segment.
GroupIndependenceWitness ==
    /\ pc = "grouped"
    /\ Len(entry_table) = 4
    /\ entry_table[1].child = 1
    /\ entry_table[2].child = 0
    /\ entry_table[3].child = 1
    /\ entry_table[4].child = 0
    /\ entry_table[3].right = entry_table[1].left
    /\ entry_table[3].left < entry_table[3].right
    /\ entry_table[3].population = entry_table[1].population
    /\ entry_table[4].right = entry_table[2].left
    /\ entry_table[4].left < entry_table[4].right
    /\ entry_table[4].population = entry_table[2].population
    /\ Len(grouped_ancestry_table) = 2

----------------------------------------------------------------------------
\* Table s holds the rows of table t in an order that keeps rows with the
\* same sort key (child, left) in the order they have in t.
TiesInOrderOf(s, t) ==
    /\ Len(s) = Len(t)
    /\ \E p \in Permutations(1..Len(t)) :
          /\ \A i \in 1..Len(t) : Values(s[i]) = Values(t[p[i]])
          /\ \A i, j \in 1..Len(t) :
                (/\ i < j
                 /\ s[i].child = s[j].child
                 /\ s[i].left = s[j].left) => p[i] < p[j]

(* C21 - Stable tie-break: rows of one child with equal left are           *)
(* processed by the merge pass in their original input order (the sorted   *)
(* table the loop starts on keeps them in that order).                     *)
StableTieBreak ==
    (pc = "loop" /\ pos = 0) => TiesInOrderOf(local_ancestry, entry_table)

\* The loop starts on two different rows with the same child and left that
\* the sort had to move behind a row given after them.
StableTieBreakWitness ==
    /\ pc = "loop"
    /\ pos = 0
    /\ Len(entry_table) = 3
    /\ entry_table[1].left = entry_table[2].left
    /\ Values(entry_table[1]) # Values(entry_table[2])
    /\ entry_table[3].left < entry_table[1].left
    /\ Values(local_ancestry[2]) = Values(entry_table[1])
    /\ Values(local_ancestry[3]) = Values(entry_table[2])

(* C29 - Accumulator safety: at every step of the merge pass the four      *)
(* accumulator lists have equal length, and the last element of a list is  *)
(* read only when the lists are non-empty: the guard ind > 0 is true       *)
(* exactly for the rows after the first, when a row has been appended.     *)
AccumulatorSafety ==
    /\ Len(new_left) = Len(new_sample)
    /\ Len(new_right) = Len(new_sample)
    /\ Len(new_population) = Len(new_sample)
    /\ pc # "IndexError"
    /\ (pc = "loop" /\ pos < Len(local_ancestry)) =>
          /\ local_ancestry[pos + 1].index > 0 <=> pos > 0
          /\ local_ancestry[pos + 1].index > 0 => new_sample # <<>>
          /\ ~RaisesIndexError(CurrentAccumulators, local_ancestry[pos + 1])

\* The loop is about to read the last elements for the second row of a
\* table that the sort had to reorder.
AccumulatorSafetyWitness ==
    /\ pc = "loop"
    /\ pos = 1
    /\ Len(local_ancestry) = 2
    /\ local_ancestry # entry_table
    /\ local_ancestry[2].index = 1
    /\ Len(new_right) = 1

----------------------------------------------------------------------------
\* Rows m and m + 1 of the sorted table are of one child and population and
\* a gap lies between them: row m ends before row m + 1 starts.
GapAfter(t, m) ==
    /\ t[m].child = t[m + 1].child
    /\ t[m].population = t[m + 1].population
    /\ t[m].right < t[m + 1].left

(* C24 - Gaps are kept: two records of one child and population with a gap *)
(* between them (the earlier ends before the later starts, no record of    *)
(* the child between them) are reported as two separate segments, the      *)
(* first ending where the earlier record ends and the next starting where  *)
(* the later record starts, and no reported segment of the child lies on a *)
(* piece of the gap that no input record lies on.                          *)
GapsKept ==
    Done =>
        \A m \in 1..(Len(local_ancestry) - 1) :
            GapAfter(local_ancestry, m) =>
                /\ \E a \in 1..(Len(squashed_ancestry_table) - 1) :
                      /\ squashed_ancestry_table[a].child = local_ancestry[m].child
                      /\ squashed_ancestry_table[a].population =
                             local_ancestry[m].population
                      /\ squashed_ancestry_table[a].right = local_ancestry[m].right
                      /\ squashed_ancestry_table[a + 1].child = local_ancestry[m].child
                      /\ squashed_ancestry_table[a + 1].population =
                             local_ancestry[m].population
                      /\ squashed_ancestry_table[a + 1].left =
                             local_ancestry[m + 1].left
                /\ \A x \in local_ancestry[m].right..(local_ancestry[m + 1].left - 1) :
                      x \in Covered(squashed_ancestry_table, local_ancestry[m].child)
                          => x \in Covered(entry_table, local_ancestry[m].child)

\* Two rows of one child and population with a gap between them were given
\* in the opposite order and have been reported.
GapsKeptWitness ==
    /\ Done
    /\ InputContract(entry_table)
    /\ Len(entry_table) = 2
    /\ entry_table[2].right < entry_table[1].left
    /\ entry_table[1].population = entry_table[2].population
    /\ Len(squashed_ancestry_table) = 2

\* A step of the loop leaves every accumulated segment as it was, except the
\* right bound of the last one.
SegmentsFrozen ==
    /\ Len(new_sample') >= Len(new_sample)
    /\ \A i \in 1..Len(new_sample) :
          /\ new_sample'[i] = new_sample[i]
          /\ new_left'[i] = new_left[i]
          /\ new_population'[i] = new_population[i]
          /\ i < Len(new_sample) => new_right'[i] = new_right[i]

(* C22 - Emitted segments are frozen: at every step of the merge pass only *)
(* the most recently started segment can change, and only its right bound; *)
(* child, left and population of every accumulated segment, and all fields *)
(* of every segment before the last, stay as they were appended.           *)
EmittedSegmentsFrozen == [][SegmentsFrozen]_vars

\* A row has been squashed into the second segment: the segment before it
\* is as it was appended, the right bound of the last one has moved.
EmittedSegmentsFrozenWitness ==
    /\ pc = "loop"
    /\ pos = 3
    /\ Len(new_sample) = 2
    /\ new_right[2] = local_ancestry[3].right
    /\ new_right[2] # local_ancestry[2].right
    /\ new_right[1] = local_ancestry[1].right

\* The step squashes row pos + 1 into the last segment.
SquashStep ==
    /\ pc = "loop"
    /\ pc' = "loop"
    /\ pos' = pos + 1
    /\ Len(new_sample') = Len(new_sample)

\* Every accumulated segment starts where a row read so far of its child
\* starts and ends where a row read so far of its child ends.
EndpointsFromRows ==
    /\ Len(new_sample) <= pos
    /\ pos <= Len(entry_table)
    /\ \A j \in 1..Len(new_sample) :
          /\ \E i \in 1..pos : /\ local_ancestry[i].child = new_sample[j]
                               /\ local_ancestry[i].left = new_left[j]
          /\ \E i \in 1..pos : /\ local_ancestry[i].child = new_sample[j]
                               /\ local_ancestry[i].right = new_right[j]
    /\ Done =>
          /\ Len(squashed_ancestry_table) <= Len(entry_table)
          /\ \A j \in 1..Len(squashed_ancestry_table) :
                /\ \E i \in 1..Len(entry_table) :
                      /\ entry_table[i].child = squashed_ancestry_table[j].child
                      /\ entry_table[i].left = squashed_ancestry_table[j].left
                /\ \E i \in 1..Len(entry_table) :
                      /\ entry_table[i].child = squashed_ancestry_table[j].child
                      /\ entry_table[i].right = squashed_ancestry_table[j].right

(* C25 - No invented endpoints: there are never more output segments than  *)
(* input records; every output segment of a child starts where some input  *)
(* record of that child starts and ends where some input record of that    *)
(* child ends, and every record merged into a segment has the segment's    *)
(* child and population, which the merge leaves as they were.              *)
NoInventedEndpoints ==
    /\ []EndpointsFromRows
    /\ [][SquashStep =>
            /\ new_sample # <<>>
            /\ local_ancestry[pos + 1].population = Last(new_population)
            /\ local_ancestry[pos + 1].child = Last(new_sample)
            /\ new_population' = new_population
            /\ new_sample' = new_sample]_vars

\* Three rows have been merged into one segment that starts where the first
\* of them starts and ends where the last of them ends.
NoInventedEndpointsWitness ==
    /\ Done
    /\ Len(entry_table) = 3
    /\ Len(squashed_ancestry_table) = 1
    /\ squashed_ancestry_table[1].left = local_ancestry[1].left
    /\ squashed_ancestry_table[1].right = local_ancestry[3].right
    /\ local_ancestry[1].right < local_ancestry[3].right
    /\ local_ancestry # entry_table

----------------------------------------------------------------------------
\* The step reads row pos + 1 of the sorted table, and that row either starts
\* a segment of its own or moves the right bound of the last segment, the
\* other segments staying as they are.
ConsumesOneRow ==
    /\ pos' = pos + 1
    /\ LET row == local_ancestry[pos + 1]
           n == Len(new_sample)
       IN  \/ /\ new_sample' = Append(new_sample, row.child)
              /\ new_left' = Append(new_left, row.left)
              /\ new_right' = Append(new_right, row.right)
              /\ new_population' = Append(new_population, row.population)
           \/ /\ n > 0
              /\ new_sample' = new_sample
              /\ new_left' = new_left
              /\ new_population' = new_population
              /\ new_right' = [new_right EXCEPT ![n] = row.right]

(* C23 - Termination and single consumption: the merge pass terminates     *)
(* after examining each sorted record exactly once (every step of the loop *)
(* reads the next record, and the output is built when all of them have    *)
(* been read); each record contributes to exactly one output segment, by   *)
(* starting it or by extending it.                                         *)
TerminatesReadingEachRowOnce ==
    /\ (pc = "loop") ~> Done
    /\ [](Done => pos = Len(entry_table))
    /\ [][pc = "loop" /\ pc' = "loop" => ConsumesOneRow]_vars
    /\ [][pc' = "done" => pc = "loop" /\ pos = Len(entry_table) /\ pos' = pos]_vars

\* The pass has ended after reading two rows, one that started a segment and
\* one that extended it.
TerminatesWitness ==
    /\ Done
    /\ pos = 2
    /\ Len(entry_table) = 2
    /\ Len(squashed_ancestry_table) = 1
    /\ squashed_ancestry_table[1].right = local_ancestry[2].right
    /\ local_ancestry[2].right > local_ancestry[1].right

----------------------------------------------------------------------------
\* The mutations of tree sequence ts (as places in its mutation table) that
\* change allele number a into allele number b: b is the derived state, a the
\* derived state of the parent mutation, or the ancestral state of the site
\* when there is no parent.
TransitionsOf(ts, a, b) ==
    {i \in 1..Len(ts.mutations) :
        /\ ts.mutations[i].derived_state = alleles[b + 1]
        /\ IF ts.mutations[i].parent = NULL
           THEN ts.ancestral_state[ts.mutations[i].site + 1] = alleles[a + 1]
           ELSE ts.mutations[ts.mutations[i].parent + 1].derived_state
                    = alleles[a + 1]}

\* The sum of the entries of row a of matrix c, up to column b.
RECURSIVE RowSum(_, _, _)
RowSum(c, a, b) == IF b < 0 THEN 0 ELSE c[a][b] + RowSum(c, a, b - 1)

\* The sum of the entries of the rows of matrix c up to row a.
RECURSIVE MatrixSum(_, _)
MatrixSum(c, a) ==
    IF a < 0 THEN 0 ELSE RowSum(c, a, Len(alleles) - 1) + MatrixSum(c, a - 1)

\* The number of mutations the loops have gone past.
MutationsCounted ==
    Cardinality({i \in 1..Len(mts.mutations) : mts.mutations[i].site < site_ind})
        + mut_ind

(* C28 - count_transitions counts every mutation exactly once: after the   *)
(* call the sum of all entries of counts equals the number of mutations    *)
(* over all sites, and entry (from, to) is the number of mutations whose   *)
(* derived state is `to` and whose parent mutation's derived state, or the *)
(* site's ancestral state when there is no parent, is `from`; during the   *)
(* call the sum is the number of mutations gone past.                      *)
EveryMutationCountedOnce ==
    /\ pc = "counted" =>
          /\ MatrixSum(counts, Len(alleles) - 1) = Len(mts.mutations)
          /\ \A a, b \in 0..(Len(alleles) - 1) :
                counts[a][b] = Cardinality(TransitionsOf(mts, a, b))
    /\ pc = "count" =>
          MatrixSum(counts, Len(alleles) - 1) = MutationsCounted

\* The call has returned on a site with a mutation and, as its child, the
\* reversal to the ancestral state, which has been counted from the derived
\* state of the first.
EveryMutationCountedWitness ==
    /\ pc = "counted"
    /\ Len(mts.mutations) = 2
    /\ mts.mutations[2].parent = 0
    /\ mts.mutations[1].derived_state # mts.ancestral_state[1]
    /\ mts.mutations[2].derived_state = mts.ancestral_state[1]
    /\ counts[AlleleIndex(mts.mutations[1].derived_state)]
             [AlleleIndex(mts.ancestral_state[1])] = 1

----------------------------------------------------------------------------
\* The patches on the axes are those of the rows of child c of table t, one
\* patch for each row, in table order.
DrawsEachRowOf(axes, t, c) ==
    /\ Len(axes) = Len(OfChild(t, c))
    /\ \A k \in 1..Len(axes) :
          /\ axes[k].xy[1][1].num * length
                 = OfChild(t, c)[k].left * axes[k].xy[1][1].den
          /\ axes[k].xy[2][1].num * length
                 = OfChild(t, c)[k].right * axes[k].xy[2][1].den
          /\ axes[k].xy[3][1] = axes[k].xy[2][1]
          /\ axes[k].xy[4][1] = axes[k].xy[1][1]

(* C26 - Plot loop completeness: the loop that stops at the first row with *)
(* child > 1 draws every squashed segment of children 0 and 1 exactly once *)
(* (child 0 on chr0, child 1 on chr1) and no segment of any other child.   *)
PlotLoopComplete ==
    /\ pc = "plotted" =>
          /\ DrawsEachRowOf(chr0, squashed_ancestry_table, 0)
          /\ DrawsEachRowOf(chr1, squashed_ancestry_table, 1)
    /\ pc \in {"done", "plotted"} =>
          Len(chr0) + Len(chr1) <= plot_ind

\* The figure is finished for a table given with a row of sample 2 before a
\* row of sample 1: the row of sample 1 has been drawn on chr1 and the loop
\* broke off at the row of sample 2.
PlotLoopCompleteWitness ==
    /\ pc = "plotted"
    /\ Len(entry_table) = 2
    /\ entry_table[1].child = 2
    /\ entry_table[2].child = 1
    /\ chr0 = <<>>
    /\ Len(chr1) = 1
    /\ plot_ind = 1
    /\ Len(squashed_ancestry_table) = 2

\* The colour the legend shows for population p.
LegendColour(p) ==
    legend.handles[CHOOSE k \in 1..Len(legend.labels) :
                       legend.labels[k] = population_name[p + 1]]

\* The patches on the axes have the colours the legend and the helper give
\* to the populations of the rows of child c of table t.
ColouredAsLegend(axes, t, c) ==
    \A k \in 1..Len(axes) :
        k <= Len(OfChild(t, c)) =>
            /\ axes[k].color = LegendColour(OfChild(t, c)[k].population)
            /\ axes[k].color
                   = plot_ancestry_chunk(Float64Series(OfChild(t, c)[k]),
                                         <<>>).chrom[1].color

(* C27 - Legend consistency: every segment in the ancestry figure is drawn *)
(* in the colour the legend assigns to its population (SMALL = population  *)
(* 0 blue, BIG = population 1 red), as plot_ancestry_chunk maps them.      *)
LegendConsistent ==
    pc = "plotted" =>
        /\ ColouredAsLegend(chr0, squashed_ancestry_table, 0)
        /\ ColouredAsLegend(chr1, squashed_ancestry_table, 1)

====
